---- MODULE Spec2Model ----
(***************************************************************************)
(* TubeShare client: the authentication context (AuthProvider), the route  *)
(* guard (useProtectedRoute) and the channel dashboard (YoutubeDashboard)  *)
(* with its debounced search, selection list and list creation.            *)
(*                                                                         *)
(* One action is one event-loop task: an event handler, a timer callback   *)
(* or the continuation of an awaited promise, together with the re-render  *)
(* and the effects React runs for the state it changed.                    *)
(***************************************************************************)
EXTENDS Integers, Sequences, FiniteSets, TLC

VARIABLES
    route,              \* the client-side route shown
    mounted,            \* YoutubeDashboard is mounted (its effects have run)
    pushed,             \* router.push targets issued by the last task, in order
    isAuthenticated,    \* AuthProvider state
    authCheck,          \* the startup fetch of /authcheck: pending or settled
    logoutPending,      \* logout requests awaiting their response
    searchQuery,        \* dashboard state
    debouncedValue,     \* useDebounce state
    timers,             \* pending setTimeout handlers of useDebounce
    inflight,           \* fetchChannels calls suspended at an await, in issue order
    searchResults,
    isDropdownOpen,
    isLoading,
    error,
    selectedChannels,
    listName,
    uncaught,           \* an unhandled promise rejection has been raised
    shown,              \* the search whose response set searchResults
    last                \* the task that produced the current state

authVars == <<isAuthenticated, authCheck, logoutPending>>
dashVars == <<searchQuery, debouncedValue, timers, inflight, searchResults,
              isDropdownOpen, isLoading, error, selectedChannels, listName,
              shown>>
vars == <<route, mounted, pushed, authVars, dashVars, uncaught, last>>

----------------------------------------------------------------------------
(* Bounds *)
MaxInflight == 2        \* searches in flight at once
MaxSelected == 2        \* length of the selection list
MaxResults == 2         \* length of a search response
MaxLogout == 2          \* logout requests in flight at once
TickMs == 150           \* granularity of the clock

(* Program constants *)
delay == 300
FetchErrorMessage == "Failed to fetch channels. Please try again."

NoError == "null"
NoSearch == [query |-> "", late |-> FALSE]

Routes == {"/", "/signin", "/dashboard"}
Queries == {"a", "b"}
Names == {"", "mylist"}

\* strings that are taken apart are sequences of characters
ProtocolRelative == <<"/", "/">>
Https == <<"h", "t", "t", "p", "s", ":", "/", "/">>
Http == <<"h", "t", "t", "p", ":", "/", "/">>

Channel(id, nm) ==
    [channelId |-> id, name |-> nm, navigationEndpoint |-> "/" \o id,
     thumbnail |-> ProtocolRelative \o <<"x", "/", "y">>]
Channels == {Channel("c1", "A"), Channel("c2", "B")}

Range(s) == {s[i] : i \in 1..Len(s)}

\* the sequences of at most n elements of S
RECURSIVE SeqsUpTo(_, _)
SeqsUpTo(S, n) ==
    IF n = 0 THEN {<<>>}
    ELSE LET shorter == SeqsUpTo(S, n - 1)
         IN  shorter \cup {Append(s, x) : s \in shorter, x \in S}

\* the bodies the channel-search service may answer with: channels are
\* unique by channelId
Responses ==
    {s \in SeqsUpTo(Channels, MaxResults) : Cardinality(Range(s)) = Len(s)}

Max(a, b) == IF a > b THEN a ELSE b

StartsWith(s, prefix) ==
    Len(s) >= Len(prefix) /\ SubSeq(s, 1, Len(prefix)) = prefix

\* the least index at which pattern occurs in s, 0 when it does not occur
IndexOf(s, pattern) ==
    LET at == {i \in 1..(Len(s) - Len(pattern) + 1) :
                 SubSeq(s, i, i + Len(pattern) - 1) = pattern}
    IN  IF at = {} THEN 0 ELSE CHOOSE i \in at : \A j \in at : i <= j

\* String.prototype.replace with a string pattern: the first occurrence
Replace(s, pattern, replacement) ==
    LET i == IndexOf(s, pattern)
    IN  IF i = 0 THEN s
        ELSE SubSeq(s, 1, i - 1) \o replacement
                \o SubSeq(s, i + Len(pattern), Len(s))

\* src of the Image of a channel, in the dropdown and in the cards
ImageSrc(channel) == Replace(channel.thumbnail, ProtocolRelative, Https)
LastOf(s) == s[Len(s)]
RemoveAt(s, i) == SubSeq(s, 1, i - 1) \o SubSeq(s, i + 1, Len(s))

----------------------------------------------------------------------------
(* useDebounce *)

\* a cleanup that leaves the superseded handler scheduled
ClearTimeout_leak(ts) == ts

\* the effect's cleanup
ClearTimeout(ts) == {}

\* timers whose value is replaced less than the delay after it was typed
MarkSuperseded(ts) ==
    {[t EXCEPT !.stale = t.stale \/ t.remaining > 0] : t \in ts}

\* cleanup of the previous effect, then setTimeout for the new value
UseDebounceEffect(ts, value) ==
    ClearTimeout(MarkSuperseded(ts))
        \cup {[value |-> value, remaining |-> delay, stale |-> FALSE,
               burst |-> \E t \in ts : t.remaining > 0]}

----------------------------------------------------------------------------
(* Effects that depend on isAuthenticated *)

\* a guard that never redirects
UseProtectedRouteEffect_none(auth) == <<>>

UseProtectedRouteEffect(auth) == IF ~auth THEN <<"/signin">> ELSE <<>>
RedirectEffect(auth) == IF ~auth THEN <<"/">> ELSE <<>>

\* effects of a mounted dashboard, in hook order
AuthEffects(auth) == UseProtectedRouteEffect(auth) \o RedirectEffect(auth)

\* effects re-run because isAuthenticated changed
AuthChanged(new) ==
    IF mounted /\ new # isAuthenticated THEN AuthEffects(new) ELSE <<>>

DashReset ==
    /\ searchQuery' = ""
    /\ debouncedValue' = ""
    /\ timers' = {}
    /\ inflight' = <<>>
    /\ searchResults' = <<>>
    /\ isDropdownOpen' = FALSE
    /\ isLoading' = FALSE
    /\ error' = NoError
    /\ selectedChannels' = <<>>
    /\ listName' = ""
    /\ shown' = NoSearch

\* the router after the pushes of one task; leaving /dashboard unmounts it
Navigate(ps) ==
    /\ pushed' = ps
    /\ IF ps = <<>>
       THEN UNCHANGED <<route, mounted, dashVars>>
       ELSE /\ route' = LastOf(ps)
            /\ IF LastOf(ps) = "/dashboard" /\ route = "/dashboard"
               THEN UNCHANGED <<mounted, dashVars>>
               ELSE mounted' = FALSE /\ DashReset

----------------------------------------------------------------------------
Init ==
    /\ route \in Routes
    /\ mounted = FALSE
    /\ pushed = <<>>
    /\ isAuthenticated = FALSE
    /\ authCheck = "pending"
    /\ logoutPending = 0
    /\ searchQuery = ""
    /\ debouncedValue = ""
    /\ timers = {}
    /\ inflight = <<>>
    /\ searchResults = <<>>
    /\ isDropdownOpen = FALSE
    /\ isLoading = FALSE
    /\ error = NoError
    /\ selectedChannels = <<>>
    /\ listName = ""
    /\ uncaught = FALSE
    /\ shown = NoSearch
    /\ last = [op |-> "init"]

----------------------------------------------------------------------------
(* AuthProvider *)

\* continuation of checkAuthStatus after fetch resolved with response.ok = ok
CheckAuthResolved(ok) ==
    /\ authCheck = "pending"
    /\ authCheck' = "settled"
    /\ isAuthenticated' = ok
    /\ Navigate(AuthChanged(ok))
    /\ last' = [op |-> "checkAuthStatus",
                outcome |-> IF ok THEN "ok" ELSE "not_ok",
                wasMounted |-> mounted]
    /\ UNCHANGED <<logoutPending, uncaught>>

\* catch block of checkAuthStatus
CheckAuthRejected ==
    /\ authCheck = "pending"
    /\ authCheck' = "settled"
    /\ isAuthenticated' = FALSE
    /\ Navigate(AuthChanged(FALSE))
    /\ last' = [op |-> "checkAuthStatus", outcome |-> "network_error",
                wasMounted |-> mounted]
    /\ UNCHANGED <<logoutPending, uncaught>>

login ==
    /\ isAuthenticated' = TRUE
    /\ Navigate(<<"/dashboard">> \o AuthChanged(TRUE))
    /\ last' = [op |-> "login"]
    /\ UNCHANGED <<authCheck, logoutPending, uncaught>>

\* logout up to its await
logout ==
    /\ logoutPending < MaxLogout
    /\ logoutPending' = logoutPending + 1
    /\ pushed' = <<>>
    /\ last' = [op |-> "logout"]
    /\ UNCHANGED <<route, mounted, isAuthenticated, authCheck, dashVars,
                   uncaught>>

\* the try block of logout after the await (the response is not inspected)
LogoutTry == [isAuthenticated |-> FALSE, pushes |-> <<"/">>]
\* the catch block of logout
LogoutCatch == [isAuthenticated |-> isAuthenticated, pushes |-> <<>>]

LogoutSettled(outcome, o) ==
    /\ logoutPending > 0
    /\ logoutPending' = logoutPending - 1
    /\ isAuthenticated' = o.isAuthenticated
    /\ Navigate(o.pushes \o AuthChanged(o.isAuthenticated))
    /\ last' = [op |-> "logoutSettled", outcome |-> outcome]
    /\ UNCHANGED <<authCheck, uncaught>>

LogoutResolved == \E status \in {"ok", "not_ok"} : LogoutSettled(status, LogoutTry)
LogoutRejected == LogoutSettled("network_error", LogoutCatch)

----------------------------------------------------------------------------
(* Landing page *)

SignInLink ==
    /\ route = "/"
    /\ route' = "/signin"
    /\ pushed' = <<>>
    /\ last' = [op |-> "SignInLink"]
    /\ UNCHANGED <<mounted, authVars, dashVars, uncaught>>

----------------------------------------------------------------------------
(* YoutubeDashboard: search *)

\* fetchChannels without the early return for the empty query
FetchChannels_noreturn(query) ==
    /\ Len(inflight) < MaxInflight
    /\ isLoading' = TRUE
    /\ error' = NoError
    /\ inflight' = Append(inflight,
                          [query |-> query, st |-> "fetch", late |-> FALSE])
    /\ UNCHANGED <<searchResults, isDropdownOpen, shown>>

\* fetchChannels without setIsLoading(true)
FetchChannels_noloading(query) ==
    IF query = ""
    THEN /\ searchResults' = <<>>
         /\ isDropdownOpen' = FALSE
         /\ shown' = NoSearch
         /\ UNCHANGED <<isLoading, error, inflight>>
    ELSE /\ Len(inflight) < MaxInflight
         /\ error' = NoError
         /\ inflight' = Append(inflight,
                               [query |-> query, st |-> "fetch", late |-> FALSE])
         /\ UNCHANGED <<searchResults, isDropdownOpen, isLoading, shown>>

\* fetchChannels(query) up to its first await
FetchChannels(query) ==
    IF query = ""
    THEN /\ searchResults' = <<>>
         /\ isDropdownOpen' = FALSE
         /\ shown' = NoSearch
         /\ UNCHANGED <<isLoading, error, inflight>>
    ELSE /\ Len(inflight) < MaxInflight
         /\ isLoading' = TRUE
         /\ error' = NoError
         /\ inflight' = Append(inflight,
                               [query |-> query, st |-> "fetch", late |-> FALSE])
         /\ UNCHANGED <<searchResults, isDropdownOpen, shown>>

\* first render of the dashboard and its effects, in hook order
MountDashboard ==
    /\ route = "/dashboard"
    /\ ~mounted
    /\ IF AuthEffects(isAuthenticated) # <<>>
       THEN Navigate(AuthEffects(isAuthenticated))
       ELSE /\ pushed' = <<>>
            /\ mounted' = TRUE
            /\ timers' = UseDebounceEffect({}, searchQuery)
            /\ FetchChannels(debouncedValue)
            /\ UNCHANGED <<route, searchQuery, debouncedValue,
                           selectedChannels, listName>>
    /\ last' = [op |-> "MountDashboard", auth |-> isAuthenticated]
    /\ UNCHANGED <<authVars, uncaught>>

\* onChange of the search input
setSearchQuery(v) ==
    /\ mounted
    /\ v # searchQuery
    /\ searchQuery' = v
    /\ timers' = UseDebounceEffect(timers, v)
    /\ pushed' = <<>>
    /\ last' = [op |-> "setSearchQuery",
                early |-> \E t \in timers : t.remaining > 0]
    /\ UNCHANGED <<route, mounted, authVars, debouncedValue, inflight,
                   searchResults, isDropdownOpen, isLoading, error,
                   selectedChannels, listName, shown, uncaught>>

\* time passes
Tick ==
    /\ mounted
    /\ \E t \in timers : t.remaining > 0
    /\ timers' = {[t EXCEPT !.remaining = Max(0, t.remaining - TickMs)] :
                    t \in timers}
    /\ pushed' = <<>>
    /\ last' = [op |-> "other"]
    /\ UNCHANGED <<route, mounted, authVars, searchQuery, debouncedValue,
                   inflight, searchResults, isDropdownOpen, isLoading, error,
                   selectedChannels, listName, shown, uncaught>>

\* the setTimeout callback of useDebounce, and the search effect when the
\* debounced value changed
Timeout(t) ==
    /\ mounted
    /\ t \in timers
    /\ t.remaining = 0
    /\ timers' = timers \ {t}
    /\ debouncedValue' = t.value
    /\ IF t.value # debouncedValue
       THEN FetchChannels(t.value)
       ELSE UNCHANGED <<inflight, searchResults, isDropdownOpen, isLoading,
                        error, shown>>
    /\ pushed' = <<>>
    /\ last' = [op |-> "Timeout", value |-> t.value, stale |-> t.stale,
                burst |-> t.burst, called |-> t.value # debouncedValue,
                issued |-> Len(inflight') - Len(inflight),
                hadResults |-> searchResults # <<>>]
    /\ UNCHANGED <<route, mounted, authVars, searchQuery, selectedChannels,
                   listName, uncaught>>

\* a try block that drops the response of a search that is no longer the
\* freshest one answered
TryBlock_sequenced(req, data) ==
    IF req.late
    THEN [searchResults |-> searchResults, isDropdownOpen |-> isDropdownOpen,
          error |-> error, uncaught |-> uncaught]
    ELSE [searchResults |-> data, isDropdownOpen |-> TRUE, error |-> error,
          uncaught |-> uncaught]

\* a try block that sets the results and leaves the dropdown as it is
TryBlock_closed(req, data) ==
    [searchResults |-> data, isDropdownOpen |-> isDropdownOpen,
     error |-> error, uncaught |-> uncaught]

\* the rest of the try block of request req once the body is decoded
TryBlock(req, data) ==
    [searchResults |-> data, isDropdownOpen |-> TRUE, error |-> error,
     uncaught |-> uncaught]

\* a catch block that keeps the results
CatchBlock_keep ==
    [searchResults |-> searchResults, isDropdownOpen |-> isDropdownOpen,
     error |-> FetchErrorMessage, uncaught |-> uncaught]

\* a catch block that opens the dropdown
CatchBlock_open ==
    [searchResults |-> <<>>, isDropdownOpen |-> TRUE,
     error |-> FetchErrorMessage, uncaught |-> uncaught]

\* the catch block
CatchBlock ==
    [searchResults |-> <<>>, isDropdownOpen |-> isDropdownOpen,
     error |-> FetchErrorMessage, uncaught |-> uncaught]

\* !response.ok throws inside the try
OnNotOk == CatchBlock

\* fetch rejects inside the try
OnFetchRejected == CatchBlock

\* a decoding outside the try: the rejection leaves fetchChannels
OnJsonRejected_uncaught ==
    [searchResults |-> searchResults, isDropdownOpen |-> isDropdownOpen,
     error |-> error, uncaught |-> TRUE]

\* response.json() rejects inside the try
OnJsonRejected == CatchBlock

\* a loading flag cleared on no path
FinallyBlock_skip(loading) == loading

\* the finally block
FinallyBlock(loading) == FALSE

\* requests issued before request i see a later response applied first
MarkLate(reqs, i) ==
    [j \in 1..Len(reqs) |->
        IF j < i THEN [reqs[j] EXCEPT !.late = TRUE] ELSE reqs[j]]

\* fetchChannels runs to its end from the await request i is suspended at
Settle(i, outcome, o, data) ==
    /\ searchResults' = o.searchResults
    /\ isDropdownOpen' = o.isDropdownOpen
    /\ error' = o.error
    /\ uncaught' = o.uncaught
    /\ isLoading' = FinallyBlock(isLoading)
    /\ inflight' = RemoveAt(IF outcome = "ok" THEN MarkLate(inflight, i)
                            ELSE inflight, i)
    /\ shown' = IF outcome = "ok"
                THEN [query |-> inflight[i].query, late |-> inflight[i].late]
                ELSE IF o.searchResults = searchResults THEN shown
                ELSE NoSearch
    /\ pushed' = <<>>
    /\ last' = [op |-> "Settle", outcome |-> outcome, data |-> data]
    /\ UNCHANGED <<route, mounted, authVars, searchQuery, debouncedValue,
                   timers, selectedChannels, listName>>

\* await fetch(...) resolves
FetchResolved(i, ok) ==
    /\ mounted
    /\ i \in 1..Len(inflight)
    /\ inflight[i].st = "fetch"
    /\ IF ok
       THEN /\ inflight' = [inflight EXCEPT ![i].st = "json"]
            /\ pushed' = <<>>
            /\ last' = [op |-> "other"]
            /\ UNCHANGED <<route, mounted, authVars, searchQuery,
                           debouncedValue, timers, searchResults,
                           isDropdownOpen, isLoading, error, selectedChannels,
                           listName, shown, uncaught>>
       ELSE Settle(i, "not_ok", OnNotOk, <<>>)

\* await fetch(...) rejects
FetchRejected(i) ==
    /\ mounted
    /\ i \in 1..Len(inflight)
    /\ inflight[i].st = "fetch"
    /\ Settle(i, "network_error", OnFetchRejected, <<>>)

\* await response.json() resolves
JsonResolved(i, data) ==
    /\ mounted
    /\ i \in 1..Len(inflight)
    /\ inflight[i].st = "json"
    /\ Settle(i, "ok", TryBlock(inflight[i], data), data)

\* await response.json() rejects
JsonRejected(i) ==
    /\ mounted
    /\ i \in 1..Len(inflight)
    /\ inflight[i].st = "json"
    /\ Settle(i, "decode_error", OnJsonRejected, <<>>)

----------------------------------------------------------------------------
(* YoutubeDashboard: selection list and list creation *)

\* an append that skips a channel already in the list
AddChannel_dedupe(prev, channel) ==
    IF \E j \in 1..Len(prev) : prev[j].channelId = channel.channelId
    THEN prev
    ELSE Append(prev, channel)

\* [...prev, channel]
AddChannel(prev, channel) == Append(prev, channel)

\* onClick of row k of the dropdown
handleSelectChannel(k) ==
    /\ mounted
    /\ isDropdownOpen
    /\ k \in 1..Len(searchResults)
    /\ Len(selectedChannels) < MaxSelected
    /\ selectedChannels' = AddChannel(selectedChannels, searchResults[k])
    /\ searchQuery' = ""
    /\ timers' = IF searchQuery # "" THEN UseDebounceEffect(timers, "")
                 ELSE timers
    /\ isDropdownOpen' = FALSE
    /\ pushed' = <<>>
    /\ last' = [op |-> "handleSelectChannel", channel |-> searchResults[k],
                prev |-> selectedChannels]
    /\ UNCHANGED <<route, mounted, authVars, debouncedValue, inflight,
                   searchResults, isLoading, error, listName, shown, uncaught>>

\* onChange of the list name input
setListName(v) ==
    /\ mounted
    /\ v # listName
    /\ listName' = v
    /\ pushed' = <<>>
    /\ last' = [op |-> "setListName"]
    /\ UNCHANGED <<route, mounted, authVars, searchQuery, debouncedValue,
                   timers, inflight, searchResults, isDropdownOpen, isLoading,
                   error, selectedChannels, shown, uncaught>>

\* a Create List button that is never disabled
CreateEnabled_always == TRUE

\* the Create List button is enabled
CreateEnabled == ~(listName = "" \/ Len(selectedChannels) = 0)

handleCreateList ==
    /\ mounted
    /\ CreateEnabled
    /\ listName' = ""
    /\ selectedChannels' = <<>>
    /\ pushed' = <<>>
    /\ last' = [op |-> "handleCreateList"]
    /\ UNCHANGED <<route, mounted, authVars, searchQuery, debouncedValue,
                   timers, inflight, searchResults, isDropdownOpen, isLoading,
                   error, shown, uncaught>>

\* a removal of the first entry with the id only
RECURSIVE RemoveChannel_first(_, _)
RemoveChannel_first(prev, channelId) ==
    IF prev = <<>> THEN <<>>
    ELSE IF Head(prev).channelId = channelId THEN Tail(prev)
    ELSE <<Head(prev)>> \o RemoveChannel_first(Tail(prev), channelId)

\* prev.filter((channel) => channel.channelId !== channelId)
RemoveChannel(prev, channelId) ==
    SelectSeq(prev, LAMBDA channel : channel.channelId # channelId)

\* handleRemoveChannel(channelId)
RemoveById(channelId) ==
    /\ mounted
    /\ selectedChannels' = RemoveChannel(selectedChannels, channelId)
    /\ pushed' = <<>>
    /\ last' = [op |-> "handleRemoveChannel", channelId |-> channelId,
                prev |-> selectedChannels]
    /\ UNCHANGED <<route, mounted, authVars, searchQuery, debouncedValue,
                   timers, inflight, searchResults, isDropdownOpen, isLoading,
                   error, listName, shown, uncaught>>

\* onClick of the X button of card k
handleRemoveChannel(k) ==
    /\ k \in 1..Len(selectedChannels)
    /\ RemoveById(selectedChannels[k].channelId)

----------------------------------------------------------------------------
AuthStep ==
    \/ \E ok \in BOOLEAN : CheckAuthResolved(ok)
    \/ CheckAuthRejected
    \/ login
    \/ logout
    \/ LogoutResolved
    \/ LogoutRejected

SearchStep ==
    \/ \E v \in Queries \cup {""} : setSearchQuery(v)
    \/ Tick
    \/ \E t \in timers : Timeout(t)
    \/ \E i \in 1..MaxInflight, ok \in BOOLEAN : FetchResolved(i, ok)
    \/ \E i \in 1..MaxInflight : FetchRejected(i)
    \/ \E i \in 1..MaxInflight, data \in Responses : JsonResolved(i, data)
    \/ \E i \in 1..MaxInflight : JsonRejected(i)

ListStep ==
    \/ \E v \in Names : setListName(v)
    \/ handleCreateList
    \/ \E k \in 1..MaxSelected : handleRemoveChannel(k)

Next ==
    \/ AuthStep
    \/ SignInLink
    \/ MountDashboard
    \/ SearchStep
    \/ \E k \in 1..MaxResults : handleSelectChannel(k)
    \/ ListStep

Spec == Init /\ [][Next]_vars

\* the authentication context, the router and the guard of the dashboard
NextAuth ==
    \/ AuthStep
    \/ SignInLink
    \/ MountDashboard

SpecAuth == Init /\ [][NextAuth]_vars

\* the search of the dashboard, entered by login and left by a failed
\* authentication check
NextSearch ==
    \/ \E ok \in BOOLEAN : CheckAuthResolved(ok)
    \/ CheckAuthRejected
    \/ login
    \/ MountDashboard
    \/ SearchStep

SpecSearch == Init /\ [][NextSearch]_vars

\* the selection list and the list creation of the dashboard, entered by
\* login, fed by searches that succeed and that the user lets end before
\* the next one starts
NextList ==
    \/ login
    \/ MountDashboard
    \/ \E v \in Queries \cup {""} : setSearchQuery(v)
    \/ Tick
    \/ \E t \in timers : Timeout(t) /\ Len(inflight') <= 1
    \/ \E i \in 1..MaxInflight : FetchResolved(i, TRUE)
    \/ \E i \in 1..MaxInflight, data \in Responses : JsonResolved(i, data)
    \/ \E k \in 1..MaxResults : handleSelectChannel(k)
    \/ ListStep

SpecList == Init /\ [][NextList]_vars

\* handleRemoveChannel as a function of the selection list and the id: a
\* mounted dashboard holding any list of channels, and a removal by any id
WideChannels == Channels \cup {Channel("c3", "C")}
ChannelIds == {c.channelId : c \in WideChannels}

InitRemove ==
    /\ route = "/dashboard"
    /\ mounted = TRUE
    /\ pushed = <<>>
    /\ isAuthenticated = TRUE
    /\ authCheck = "settled"
    /\ logoutPending = 0
    /\ searchQuery = ""
    /\ debouncedValue = ""
    /\ timers = {}
    /\ inflight = <<>>
    /\ searchResults = <<>>
    /\ isDropdownOpen = FALSE
    /\ isLoading = FALSE
    /\ error = NoError
    /\ selectedChannels \in SeqsUpTo(WideChannels, MaxSelected + 2)
    /\ listName = ""
    /\ uncaught = FALSE
    /\ shown = NoSearch
    /\ last = [op |-> "init"]

NextRemove == \E id \in ChannelIds : RemoveById(id)

\* the thumbnails the service may answer with: protocol-relative or
\* absolute URLs
MaxPath == 3
Thumbnails ==
    {scheme \o path : scheme \in {ProtocolRelative, Https, Http},
                      path \in SeqsUpTo({"x", "/", "."}, MaxPath)}

ThumbResponses ==
    {<<[Channel("c1", "A") EXCEPT !.thumbnail = t]>> : t \in Thumbnails}

\* the rendering of thumbnails: a mounted dashboard with one search
\* awaiting its body, answered with a channel of any thumbnail, which is
\* shown in the dropdown and, once selected, in a card
InitThumb ==
    /\ route = "/dashboard"
    /\ mounted = TRUE
    /\ pushed = <<>>
    /\ isAuthenticated = TRUE
    /\ authCheck = "settled"
    /\ logoutPending = 0
    /\ searchQuery = "a"
    /\ debouncedValue = "a"
    /\ timers = {}
    /\ inflight = <<[query |-> "a", st |-> "json", late |-> FALSE]>>
    /\ searchResults = <<>>
    /\ isDropdownOpen = FALSE
    /\ isLoading = TRUE
    /\ error = NoError
    /\ selectedChannels = <<>>
    /\ listName = ""
    /\ uncaught = FALSE
    /\ shown = NoSearch
    /\ last = [op |-> "init"]

NextThumb ==
    \/ \E data \in ThumbResponses : JsonResolved(1, data)
    \/ handleSelectChannel(1)

SpecThumb == InitThumb /\ [][NextThumb]_vars

SpecRemove == InitRemove /\ [][NextRemove]_vars

----------------------------------------------------------------------------
(* Properties *)

Settled(outcomes) == last.op = "Settle" /\ last.outcome \in outcomes

\* C1: trailing debounce. The handler that fires always carries the text
\* that is current and was not replaced less than the delay after it was
\* typed, and nothing else changes the debounced value or starts a search of
\* the mounted dashboard: a value replaced within the delay is never
\* propagated and never searched, only the last value of a burst is.
C1_TrailingDebounce ==
    [][ /\ last'.op = "Timeout" =>
             ~last'.stale /\ last'.value = searchQuery
        /\ ( mounted' /\ ( \/ debouncedValue' # debouncedValue
                           \/ Len(inflight') > Len(inflight) ) )
             => last'.op = "Timeout" ]_vars

\* C1 witness: the last value of a burst of changes has fired and started a
\* search
C1_BurstLastSearched ==
    last.op = "Timeout" /\ last.burst /\ last.issued = 1

\* C2: searches are not sequenced. The decoded response of a search is
\* applied also when the response of a search issued after it has been
\* applied before: the results shown are then those of the earlier search.
C2_LateResponseApplied ==
    (Settled({"ok"}) /\ shown.late) =>
        /\ searchResults = last.data
        /\ isDropdownOpen

\* C2 witness: the results shown are those of an earlier query, applied
\* after the response of the search of the current debounced query
C2_Race ==
    /\ Settled({"ok"})
    /\ shown.late
    /\ debouncedValue \notin {"", shown.query}
    /\ searchResults # <<>>
    /\ inflight = <<>>

\* C3 (as claimed): whatever the outcome of the logout request, logout ends
\* with the flag false and a navigation to the landing screen
C3_LogoutAlwaysProceeds ==
    last.op = "logoutSettled" =>
        /\ ~isAuthenticated
        /\ pushed # <<>>
        /\ route = "/"

\* C4: the flag starts false; the startup check sets it to true exactly when
\* the response is OK; the guard of a dashboard rendered with, or turned to,
\* a false flag pushes /signin.
C4_StartupCheck ==
    /\ last.op = "init" => ~isAuthenticated
    /\ last.op = "checkAuthStatus" =>
          /\ isAuthenticated = (last.outcome = "ok")
          /\ (last.wasMounted /\ last.outcome # "ok")
                => "/signin" \in Range(pushed)
    /\ (last.op = "MountDashboard" /\ ~last.auth)
          => "/signin" \in Range(pushed)

\* C4 witness: the check has failed and the dashboard was rendered with the
\* false flag
C4_GuardAfterFailedCheck ==
    /\ last.op = "MountDashboard"
    /\ authCheck = "settled"
    /\ ~isAuthenticated
    /\ "/signin" \in Range(pushed)

\* C5 (as claimed): when the guard has pushed /signin, the sign-in screen is
\* the route the user ends up on
C5_GuardEndsOnSignIn ==
    "/signin" \in Range(pushed) => route = "/signin"

\* C6: a search whose request fails by a transport error or a non-2xx status
\* ends with the fixed message, no results and the loading flag false.
C6_FailedSearch ==
    Settled({"not_ok", "network_error"}) =>
        /\ error = FetchErrorMessage
        /\ searchResults = <<>>
        /\ ~isLoading

\* C6 witness: a search has ended on a non-2xx status
C6_FailedSearchSeen ==
    Settled({"not_ok"}) /\ error = FetchErrorMessage /\ searchResults = <<>>

\* C7 (as claimed): a body that fails to decode leaves fetchChannels as an
\* uncaught rejection and is not turned into the fixed message
C7_DecodeFailureUncaught ==
    Settled({"decode_error"}) => (uncaught /\ error # FetchErrorMessage)

\* C7 (amended): a body that fails to decode is caught by the search flow:
\* no uncaught rejection, the fixed message, no results, loading false.
C7_DecodeFailureCaught ==
    Settled({"decode_error"}) =>
        /\ ~uncaught
        /\ error = FetchErrorMessage
        /\ searchResults = <<>>
        /\ ~isLoading

\* C7 witness: the body of a 2xx response has failed to decode
C7_DecodeFailureSeen ==
    Settled({"decode_error"}) /\ error = FetchErrorMessage

\* C8: a search with a non-empty query sets the loading flag when it starts
\* and clears it when it ends, whatever the outcome; with no search left in
\* flight the loading flag is false.
C8_LoadingCleared ==
    /\ (last.op = "Timeout" /\ last.issued = 1) => isLoading
    /\ Settled({"ok", "not_ok", "network_error", "decode_error"}) => ~isLoading
    /\ (mounted /\ inflight = <<>>) => ~isLoading

\* C8 witness: the only search in flight has ended on a transport error
C8_LastSearchEnded ==
    Settled({"network_error"}) /\ inflight = <<>> /\ ~isLoading

\* C9: fetchChannels("") issues no request and leaves no results and a
\* closed dropdown, whether called for a debounced value that became empty
\* or on the first render.
C9_EmptySearch ==
    /\ (last.op = "Timeout" /\ last.called /\ last.value = "") =>
          /\ last.issued = 0
          /\ searchResults = <<>>
          /\ ~isDropdownOpen
    /\ (last.op = "MountDashboard" /\ mounted) =>
          /\ inflight = <<>>
          /\ searchResults = <<>>
          /\ ~isDropdownOpen

\* C9 witness: the empty search has run over results that were shown
C9_EmptySearchClearedResults ==
    /\ last.op = "Timeout"
    /\ last.called
    /\ last.value = ""
    /\ last.hadResults
    /\ searchResults = <<>>

\* C10: a search with a non-empty query clears the error when it starts;
\* when its body is decoded the results are exactly the response, in its
\* order, and the dropdown is open.
C10_SuccessfulSearch ==
    /\ (last.op = "Timeout" /\ last.issued = 1) => error = NoError
    /\ Settled({"ok"}) => (searchResults = last.data /\ isDropdownOpen)

\* C10 witness: a response of two channels has been applied
C10_ResponseApplied ==
    Settled({"ok"}) /\ Len(last.data) > 1 /\ searchResults = last.data

\* C11: selecting a row of the dropdown appends its channel to the end of
\* the selection list, whatever the list holds (the entries before it are
\* kept in their order, a channel already in the list is entered again),
\* empties the query text and closes the dropdown.
C11_SelectAppends ==
    last.op = "handleSelectChannel" =>
        /\ Len(selectedChannels) = Len(last.prev) + 1
        /\ SubSeq(selectedChannels, 1, Len(last.prev)) = last.prev
        /\ selectedChannels[Len(selectedChannels)] = last.channel
        /\ searchQuery = ""
        /\ ~isDropdownOpen

\* C11 witness: the channel selected was in the list already and is in it
\* twice
C11_SelectedTwice ==
    /\ last.op = "handleSelectChannel"
    /\ last.prev = <<last.channel>>
    /\ selectedChannels = <<last.channel, last.channel>>

\* the entries of s whose id is not channelId, in their order
RECURSIVE Others(_, _)
Others(s, channelId) ==
    IF s = <<>> THEN <<>>
    ELSE (IF Head(s).channelId = channelId THEN <<>> ELSE <<Head(s)>>)
            \o Others(Tail(s), channelId)

\* C12: a removal leaves the list without any entry of the id, duplicates
\* included, and with all other entries in their order; removing the same
\* id again, or an id that is absent, leaves the list as it is.
C12_RemoveFilters ==
    last.op = "handleRemoveChannel" =>
        /\ selectedChannels = Others(last.prev, last.channelId)
        /\ \A j \in 1..Len(selectedChannels) :
              selectedChannels[j].channelId # last.channelId
        /\ RemoveChannel(selectedChannels, last.channelId) = selectedChannels
        /\ (\A j \in 1..Len(last.prev) :
              last.prev[j].channelId # last.channelId)
              => selectedChannels = last.prev

\* C12 witness: an id entered twice was removed from among two other
\* channels, which are left in their order
C12_DuplicatesRemoved ==
    /\ last.op = "handleRemoveChannel"
    /\ Len(last.prev) = 4
    /\ last.prev[1].channelId = last.channelId
    /\ last.prev[3].channelId = last.channelId
    /\ last.prev[2] # last.prev[4]
    /\ selectedChannels = <<last.prev[2], last.prev[4]>>

\* C13: the list is created only from a non-empty name and a non-empty
\* selection; the handler changes nothing but the name and the selection,
\* which it leaves empty, so that it cannot run twice in a row.
C13_CreateList ==
    [][ /\ last'.op = "handleCreateList" =>
             /\ listName # ""
             /\ Len(selectedChannels) > 0
             /\ listName' = ""
             /\ selectedChannels' = <<>>
             /\ UNCHANGED <<route, mounted, authVars, searchQuery,
                            debouncedValue, timers, inflight, searchResults,
                            isDropdownOpen, isLoading, error, uncaught>>
        /\ last.op = "handleCreateList" => last'.op # "handleCreateList"
      ]_vars

\* C13 witness: a list was created and the name and the selection are empty
C13_ListCreated ==
    last.op = "handleCreateList" /\ listName = "" /\ selectedChannels = <<>>

\* the channels whose Image is rendered: the rows of the dropdown and the
\* cards
Rendered ==
    (IF isDropdownOpen /\ Len(searchResults) > 0
     THEN Range(searchResults) ELSE {})
        \cup Range(selectedChannels)

\* the URL of a thumbnail on the secure scheme
Secure(t) ==
    IF StartsWith(t, Https) THEN t
    ELSE IF StartsWith(t, Http) THEN Https \o SubSeq(t, Len(Http) + 1, Len(t))
    ELSE Https \o SubSeq(t, Len(ProtocolRelative) + 1, Len(t))

\* C14 (as claimed): every thumbnail is rendered on the secure scheme: a
\* protocol-relative one with https: put before it, one that carries a
\* scheme uncorrupted
C14_ThumbnailSecure ==
    \A channel \in Rendered :
        /\ StartsWith(ImageSrc(channel), Https)
        /\ ImageSrc(channel) = Secure(channel.thumbnail)

\* C15 (as claimed): with no logout called, the response of the startup
\* check that arrives while the flag is true (set by login) leaves it true
C15_LoginSticks ==
    [][ ( /\ isAuthenticated
          /\ logoutPending = 0
          /\ authCheck = "pending"
          /\ authCheck' = "settled" ) => isAuthenticated' ]_vars

\* C16 (as claimed): while the startup check is pending, the guard and the
\* dashboard push no route
C16_NoRedirectWhilePending ==
    (last.op = "MountDashboard" /\ authCheck = "pending") => pushed = <<>>

\* C17 (as claimed): the loading flag is true whenever a search is in flight
C17_LoadingWhileInFlight ==
    (mounted /\ inflight # <<>>) => isLoading

\* C17 (amended): the loading flag is true from the start of a search until
\* the next end of any search: it is set when a search starts and stays set
\* as long as no search ends.
C17_LoadingUntilNextEnd ==
    [][ mounted' =>
          /\ Len(inflight') > Len(inflight) => isLoading'
          /\ (isLoading /\ Len(inflight') >= Len(inflight)) => isLoading'
      ]_vars

\* C17 witness: a search has ended and cleared the loading flag while
\* another one is in flight
C17_ClearedWhilePending ==
    /\ last.op = "Settle"
    /\ mounted
    /\ inflight # <<>>
    /\ ~isLoading

\* the debounced query is empty, the empty search has left no results and a
\* closed dropdown, and the debounced query stays empty in the step
ClearedAndStaysCleared ==
    /\ mounted
    /\ mounted'
    /\ debouncedValue = ""
    /\ debouncedValue' = ""
    /\ searchResults = <<>>
    /\ ~isDropdownOpen

\* C18 (as claimed): once the empty search has run, the results stay empty
\* and no dropdown is shown until a new query is debounced
C18_StaysCleared ==
    [][ ClearedAndStaysCleared =>
          /\ searchResults' = <<>>
          /\ ~(isDropdownOpen' /\ Len(searchResults') > 0) ]_vars

\* C18 (amended): once the empty search has run, the results stay empty and
\* the dropdown closed until a new query is debounced or the body of a
\* search still in flight is decoded, which sets the results and opens the
\* dropdown.
C18_StaysClearedUntilLateResponse ==
    [][ ClearedAndStaysCleared =>
          \/ searchResults' = <<>> /\ ~isDropdownOpen'
          \/ /\ last'.op = "Settle"
             /\ last'.outcome = "ok"
             /\ searchResults' = last'.data
             /\ isDropdownOpen' ]_vars

\* C18 witness: with the query and the debounced query empty, the response
\* of an earlier search has set the results and opened the dropdown
C18_RepopulatedAfterClear ==
    /\ Settled({"ok"})
    /\ searchQuery = ""
    /\ debouncedValue = ""
    /\ searchResults # <<>>
    /\ isDropdownOpen
====
